---- MODULE Spec2Model ----
(***************************************************************************)
(* Model of src/services/dataProcessor.ts: the transform pipeline          *)
(* processFinancialData (quarter parsing, numeric coercion, per-row        *)
(* metrics, chronological sort, growth enrichment).                        *)
(*                                                                         *)
(* Representation.                                                         *)
(*  - A JavaScript string is a sequence of one-character strings; the      *)
(*    value `undefined` of an optional column is the sentinel Undefined.   *)
(*  - A JavaScript number-or-null is a record [k, n, d]: k = "fin" is the  *)
(*    finite value n/d in lowest terms (d > 0), k = "inf" is the infinity  *)
(*    of sign n, k = "nan" is NaN and k = "null" is null.  Finite values   *)
(*    are exact rationals: rounding of IEEE doubles is not modelled, and   *)
(*    -0 is identified with 0 (the code only tests numbers with !== 0).    *)
(***************************************************************************)
EXTENDS Integers, Sequences, FiniteSets, TLC

VARIABLES rawData, pc, dataWithMetrics, result, error

vars == <<rawData, pc, dataWithMetrics, result, error>>

(***************************************************************************)
(* Strings                                                                 *)
(***************************************************************************)
Undefined == <<"undefined">>

DigitChars == <<"0", "1", "2", "3", "4", "5", "6", "7", "8", "9">>

Digit == {DigitChars[i] : i \in 1..Len(DigitChars)}

DigitVal(c) == (CHOOSE i \in 1..Len(DigitChars) : DigitChars[i] = c) - 1

WhiteSpace == {" ", "\t"}

\* `${x}` of a template literal: a string is itself, undefined prints as "undefined".
TemplateStr(s) ==
    IF s = Undefined THEN <<"u", "n", "d", "e", "f", "i", "n", "e", "d">> ELSE s

\* Number.prototype.toString of a non-negative integer (an array index).
RECURSIVE IndexStr(_)
IndexStr(i) ==
    IF i < 10 THEN <<DigitChars[i + 1]>>
    ELSE IndexStr(i \div 10) \o <<DigitChars[(i % 10) + 1]>>

\* String.prototype.trim
RECURSIVE TrimStart(_)
TrimStart(s) ==
    IF s # <<>> /\ Head(s) \in WhiteSpace THEN TrimStart(Tail(s)) ELSE s

RECURSIVE TrimEnd(_)
TrimEnd(s) ==
    IF s # <<>> /\ s[Len(s)] \in WhiteSpace THEN TrimEnd(SubSeq(s, 1, Len(s) - 1)) ELSE s

Trim(s) == TrimEnd(TrimStart(s))

\* String.prototype.split(sep) for a one-character separator.
RECURSIVE SplitFrom(_, _, _)
SplitFrom(s, sep, cur) ==
    IF s = <<>> THEN <<cur>>
    ELSE IF Head(s) = sep THEN <<cur>> \o SplitFrom(Tail(s), sep, <<>>)
    ELSE SplitFrom(Tail(s), sep, Append(cur, Head(s)))

Split(s, sep) == SplitFrom(s, sep, <<>>)

\* String.prototype.substring(from)
Substring(s, from) == SubSeq(s, from + 1, Len(s))

\* The longest prefix of s made of decimal digits.
RECURSIVE DigitPrefix(_)
DigitPrefix(s) ==
    IF s # <<>> /\ Head(s) \in Digit THEN <<Head(s)>> \o DigitPrefix(Tail(s)) ELSE <<>>

RECURSIVE DigitsValue(_)
DigitsValue(s) ==
    IF s = <<>> THEN 0 ELSE 10 * DigitsValue(SubSeq(s, 1, Len(s) - 1)) + DigitVal(s[Len(s)])

RECURSIVE Pow10(_)
Pow10(k) == IF k = 0 THEN 1 ELSE 10 * Pow10(k - 1)

StartsWith(s, p) == Len(s) >= Len(p) /\ SubSeq(s, 1, Len(p)) = p

(***************************************************************************)
(* Numbers                                                                 *)
(***************************************************************************)
Abs(x) == IF x < 0 THEN -x ELSE x

Sgn(x) == IF x < 0 THEN -1 ELSE 1

RECURSIVE GCD(_, _)
GCD(a, b) == IF b = 0 THEN a ELSE GCD(b, a % b)

Null == [k |-> "null", n |-> 0, d |-> 1]

NaN == [k |-> "nan", n |-> 0, d |-> 1]

Inf(s) == [k |-> "inf", n |-> s, d |-> 1]

\* The finite number n/d (d # 0), in lowest terms with a positive denominator.
Fin(n, d) ==
    LET g == GCD(Abs(n), Abs(d))
    IN  [k |-> "fin", n |-> (Sgn(d) * n) \div g, d |-> Abs(d) \div g]

IntNum(n) == Fin(n, 1)

Zero == IntNum(0)

\* ToNumber of an operand: null counts as 0 in arithmetic.
ToNumber(x) == IF x.k = "null" THEN Zero ELSE x

\* x === null
IsNull(x) == x.k = "null"

\* x !== 0 (NaN and the infinities are not 0; null is not 0 either)
NotZero(x) == ~(x.k = "fin" /\ x.n = 0)

NumNeg(x0) ==
    LET x == ToNumber(x0)
    IN  CASE x.k = "nan" -> NaN
          [] x.k = "inf" -> Inf(-x.n)
          [] OTHER -> Fin(-x.n, x.d)

\* a + b
NumAdd(a0, b0) ==
    LET a == ToNumber(a0)
        b == ToNumber(b0)
    IN  CASE a.k = "nan" \/ b.k = "nan" -> NaN
          [] a.k = "inf" /\ b.k = "inf" -> IF a.n = b.n THEN a ELSE NaN
          [] a.k = "inf" -> a
          [] b.k = "inf" -> b
          [] OTHER -> Fin(a.n * b.d + b.n * a.d, a.d * b.d)

\* a - b
NumSub(a, b) == NumAdd(a, NumNeg(b))

\* a * b
NumMul(a0, b0) ==
    LET a == ToNumber(a0)
        b == ToNumber(b0)
    IN  CASE a.k = "nan" \/ b.k = "nan" -> NaN
          [] a.k = "inf" \/ b.k = "inf" ->
                IF ~NotZero(a) \/ ~NotZero(b) THEN NaN ELSE Inf(Sgn(a.n) * Sgn(b.n))
          [] OTHER -> Fin(a.n * b.n, a.d * b.d)

\* a / b
NumDiv(a0, b0) ==
    LET a == ToNumber(a0)
        b == ToNumber(b0)
    IN  CASE a.k = "nan" \/ b.k = "nan" -> NaN
          [] a.k = "inf" /\ b.k = "inf" -> NaN
          [] a.k = "inf" -> Inf(a.n * Sgn(b.n))
          [] b.k = "inf" -> Zero
          [] b.n = 0 -> IF a.n = 0 THEN NaN ELSE Inf(Sgn(a.n))
          [] OTHER -> Fin(a.n * b.d, a.d * b.n)

\* The sign of a number as a sort comparator result sees it: -1, 0, 1 (NaN counts as 0).
NumSign(x) ==
    CASE x.k = "nan" -> 0
      [] x.k = "null" -> 0
      [] x.n < 0 -> -1
      [] x.n > 0 -> 1
      [] OTHER -> 0

\* a === b on numbers (NaN equals nothing)
NumEq(a, b) == a.k # "nan" /\ b.k # "nan" /\ a = b

SignOf(t) == IF t # <<>> /\ Head(t) = "-" THEN -1 ELSE 1

Unsigned(t) == IF t # <<>> /\ Head(t) \in {"+", "-"} THEN Tail(t) ELSE t

\* parseInt(s, 10): leading white space, an optional sign, the longest run of digits.
ParseIntSigned(t) ==
    IF DigitPrefix(Unsigned(t)) = <<>> THEN NaN
    ELSE IntNum(SignOf(t) * DigitsValue(DigitPrefix(Unsigned(t))))

ParseInt(s) == ParseIntSigned(TrimStart(s))

\* parseFloat(s): leading white space, an optional sign, then "Infinity" or the
\* longest prefix that is a decimal literal (digits, optional fraction, optional
\* exponent); anything after that prefix is ignored; no such prefix gives NaN.
FractionDigits(v) == IF v # <<>> /\ Head(v) = "." THEN DigitPrefix(Tail(v)) ELSE <<>>

Exponent(w) ==
    IF w # <<>> /\ Head(w) \in {"e", "E"}
    THEN SignOf(Tail(w)) * DigitsValue(DigitPrefix(Unsigned(Tail(w))))
    ELSE 0

Scale(m, ex) ==
    IF ex >= 0 THEN NumMul(m, IntNum(Pow10(ex))) ELSE NumDiv(m, IntNum(Pow10(-ex)))

\* ip, fp: the digits before and after the point; v: the text after ip.
ParseDecimal(sign, ip, fp, v) ==
    IF ip = <<>> /\ fp = <<>> THEN NaN
    ELSE Scale(Fin(sign * (DigitsValue(ip) * Pow10(Len(fp)) + DigitsValue(fp)),
                   Pow10(Len(fp))),
               Exponent(IF v # <<>> /\ Head(v) = "." THEN SubSeq(v, Len(fp) + 2, Len(v))
                        ELSE v))

ParseFraction(sign, ip, v) == ParseDecimal(sign, ip, FractionDigits(v), v)

ParseUnsigned(sign, u) ==
    IF StartsWith(u, <<"I", "n", "f", "i", "n", "i", "t", "y">>) THEN Inf(sign)
    ELSE ParseFraction(sign, DigitPrefix(u), SubSeq(u, Len(DigitPrefix(u)) + 1, Len(u)))

ParseSigned(t) == ParseUnsigned(SignOf(t), Unsigned(t))

ParseFloat(s) == ParseSigned(TrimStart(s))

(***************************************************************************)
(* parseQuarter, safeParseFloat                                            *)
(***************************************************************************)
\* A variant of the pattern that only takes years 2000-2099: /^Q[1-4]-20\d{2}$/
QuarterRegex_From2000 == <<{"Q"}, {"1", "2", "3", "4"}, {"-"}, {"2"}, {"0"}, Digit, Digit>>

\* /^Q[1-4]-\d{4}$/ : one character class per position, anchored at both ends.
QuarterRegex == <<{"Q"}, {"1", "2", "3", "4"}, {"-"}, Digit, Digit, Digit, Digit>>

\* A variant of the match without the end anchor: /^Q[1-4]-\d{4}/
Match_NoEndAnchor(s, regex) ==
    /\ Len(s) >= Len(regex)
    /\ \A i \in 1..Len(regex) : s[i] \in regex[i]

\* quarterStr.match(regex) is not null
Match(s, regex) ==
    /\ Len(s) = Len(regex)
    /\ \A i \in 1..Len(regex) : s[i] \in regex[i]

\* !quarterStr : undefined and the empty string are falsy
Falsy(s) == s = Undefined \/ s = <<>>

QuarterErrorMessage(quarterStr) ==
    [prefix |-> "Invalid Quarter format: \"",
     label |-> TemplateStr(quarterStr),
     suffix |-> "\". Expected format is \"Q1-2023\"."]

NoMessage == [prefix |-> "", label |-> <<>>, suffix |-> ""]

\* A variant of parseQuarter that only tests !quarterStr and never the pattern.
parseQuarter_NoPatternTest(quarterStr) ==
    IF Falsy(quarterStr)
    THEN [ok |-> FALSE, year |-> NaN, quarterIndex |-> NaN, sortKey |-> NaN,
          message |-> QuarterErrorMessage(quarterStr)]
    ELSE LET parts == Split(quarterStr, "-")
             qIndex == ParseInt(Substring(parts[1], 1))
             year == ParseInt(parts[2])
         IN  [ok |-> TRUE, year |-> year, quarterIndex |-> qIndex,
              sortKey |-> NumAdd(year, NumDiv(qIndex, IntNum(4))),
              message |-> NoMessage]

\* A variant of parseQuarter whose sort key is year + quarterIndex.
parseQuarter_KeyNotDivided(quarterStr) ==
    IF Falsy(quarterStr) \/ ~Match(quarterStr, QuarterRegex)
    THEN [ok |-> FALSE, year |-> NaN, quarterIndex |-> NaN, sortKey |-> NaN,
          message |-> QuarterErrorMessage(quarterStr)]
    ELSE LET parts == Split(quarterStr, "-")
             qIndex == ParseInt(Substring(parts[1], 1))
             year == ParseInt(parts[2])
         IN  [ok |-> TRUE, year |-> year, quarterIndex |-> qIndex,
              sortKey |-> NumAdd(year, qIndex),
              message |-> NoMessage]

\* parseQuarter: ok = FALSE is the thrown Error, carrying its message.
parseQuarter(quarterStr) ==
    IF Falsy(quarterStr) \/ ~Match(quarterStr, QuarterRegex)
    THEN [ok |-> FALSE, year |-> NaN, quarterIndex |-> NaN, sortKey |-> NaN,
          message |-> QuarterErrorMessage(quarterStr)]
    ELSE LET parts == Split(quarterStr, "-")
             qIndex == ParseInt(Substring(parts[1], 1))
             year == ParseInt(parts[2])
         IN  [ok |-> TRUE, year |-> year, quarterIndex |-> qIndex,
              sortKey |-> NumAdd(year, NumDiv(qIndex, IntNum(4))),
              message |-> NoMessage]

\* A variant that tests the parsed number for truthiness: parseFloat(val) || defaultValue
safeParseFloat_FalsyNumber(val, defaultValue) ==
    IF val = Undefined \/ Trim(val) = <<>> THEN defaultValue
    ELSE LET num == ParseFloat(val)
         IN  IF num.k = "nan" \/ ~NotZero(num) THEN defaultValue ELSE num

safeParseFloat(val, defaultValue) ==
    IF val = Undefined \/ Trim(val) = <<>> THEN defaultValue
    ELSE LET num == ParseFloat(val)
         IN  IF num.k = "nan" THEN defaultValue ELSE num

(***************************************************************************)
(* processFinancialData, first map: one normalized row per raw row         *)
(***************************************************************************)
All == <<"A", "l", "l">>

\* s || 'All'
OrAll(s) == IF Falsy(s) THEN All ELSE s

\* cond ? (a / b) * 100 : otherwise
Percent(a, b) == NumMul(NumDiv(a, b), IntNum(100))

\* A variant of the id without the input position.
RowId_WithoutIndex(row, index) ==
    TemplateStr(row.Quarter) \o <<"-">> \o OrAll(row.Region) \o <<"-">> \o OrAll(row.Product)

\* `${row.Quarter}-${row.Region || 'All'}-${row.Product || 'All'}-${index}`
RowId(row, index) ==
    TemplateStr(row.Quarter) \o <<"-">> \o OrAll(row.Region) \o <<"-">>
        \o OrAll(row.Product) \o <<"-">> \o IndexStr(index)

\* Lines 25-29: the actual columns; NetIncome is still the raw parse (null when absent).
Actuals(row) ==
    [Revenue |-> safeParseFloat(row.Revenue, Zero),
     COGS |-> safeParseFloat(row.COGS, Zero),
     OPEX |-> safeParseFloat(row.OPEX, Zero),
     Non_Cash_Adjustments |-> safeParseFloat(row.Non_Cash_Adjustments, Zero),
     NetIncome |-> safeParseFloat(row.NetIncome, Null)]

\* A variant of line 30 that adds the non-cash adjustments back (EBITDA).
ResolveNetIncome_WithNonCash(a) ==
    [a EXCEPT !.NetIncome =
        IF IsNull(a.NetIncome)
        THEN NumAdd(NumSub(NumSub(a.Revenue, a.COGS), a.OPEX), a.Non_Cash_Adjustments)
        ELSE a.NetIncome]

\* Line 30: finalNetIncome
ResolveNetIncome(a) ==
    [a EXCEPT !.NetIncome =
        IF IsNull(a.NetIncome) THEN NumSub(NumSub(a.Revenue, a.COGS), a.OPEX)
        ELSE a.NetIncome]

\* A variant of line 36 whose plan non-cash adjustments default to 0.
Plan_ZeroNonCash(row, a) ==
    [plan_Revenue |-> safeParseFloat(row.Plan_Revenue, Null),
     plan_COGS |-> safeParseFloat(row.Plan_COGS, Null),
     plan_OPEX |-> safeParseFloat(row.Plan_OPEX, Null),
     plan_Non_Cash_Adjustments |-> safeParseFloat(row.Plan_Non_Cash_Adjustments, Zero),
     plan_NetIncome |-> safeParseFloat(row.Plan_NetIncome, Null)]

\* Lines 33-37: the plan columns; plan_NetIncome is still plan_NetIncomeRaw.
Plan(row, a) ==
    [plan_Revenue |-> safeParseFloat(row.Plan_Revenue, Null),
     plan_COGS |-> safeParseFloat(row.Plan_COGS, Null),
     plan_OPEX |-> safeParseFloat(row.Plan_OPEX, Null),
     plan_Non_Cash_Adjustments |->
        safeParseFloat(row.Plan_Non_Cash_Adjustments, a.Non_Cash_Adjustments),
     plan_NetIncome |-> safeParseFloat(row.Plan_NetIncome, Null)]

\* A variant of lines 38-40 that recomputes over an explicit plan net income.
ResolvePlanNetIncome_ExplicitIgnored(p) ==
    [p EXCEPT !.plan_NetIncome =
        IF ~IsNull(p.plan_Revenue) /\ ~IsNull(p.plan_COGS) /\ ~IsNull(p.plan_OPEX)
        THEN NumSub(NumSub(p.plan_Revenue, p.plan_COGS), p.plan_OPEX)
        ELSE p.plan_NetIncome]

\* Lines 38-40: plan_NetIncome
ResolvePlanNetIncome(p) ==
    [p EXCEPT !.plan_NetIncome =
        IF /\ IsNull(p.plan_NetIncome)
           /\ ~IsNull(p.plan_Revenue) /\ ~IsNull(p.plan_COGS) /\ ~IsNull(p.plan_OPEX)
        THEN NumSub(NumSub(p.plan_Revenue, p.plan_COGS), p.plan_OPEX)
        ELSE p.plan_NetIncome]

\* A variant of lines 43-48 whose netMargin is not guarded against Revenue = 0.
Metrics_NetMarginUnguarded(a) ==
    [grossProfit |-> NumSub(a.Revenue, a.COGS),
     grossMargin |->
        IF NotZero(a.Revenue) THEN Percent(NumSub(a.Revenue, a.COGS), a.Revenue) ELSE Zero,
     opexMargin |-> IF NotZero(a.Revenue) THEN Percent(a.OPEX, a.Revenue) ELSE Zero,
     EBITDA |->
        NumAdd(NumSub(NumSub(a.Revenue, a.COGS), a.OPEX), a.Non_Cash_Adjustments),
     EBITDA_Margin |->
        IF NotZero(a.Revenue)
        THEN Percent(NumAdd(NumSub(NumSub(a.Revenue, a.COGS), a.OPEX),
                            a.Non_Cash_Adjustments), a.Revenue)
        ELSE Zero,
     netMargin |-> Percent(a.NetIncome, a.Revenue)]

\* A variant of lines 43-48 whose EBITDA subtracts the non-cash adjustments.
Metrics_NonCashSubtracted(a) ==
    [grossProfit |-> NumSub(a.Revenue, a.COGS),
     grossMargin |->
        IF NotZero(a.Revenue) THEN Percent(NumSub(a.Revenue, a.COGS), a.Revenue) ELSE Zero,
     opexMargin |-> IF NotZero(a.Revenue) THEN Percent(a.OPEX, a.Revenue) ELSE Zero,
     EBITDA |->
        NumSub(NumSub(NumSub(a.Revenue, a.COGS), a.OPEX), a.Non_Cash_Adjustments),
     EBITDA_Margin |->
        IF NotZero(a.Revenue)
        THEN Percent(NumSub(NumSub(NumSub(a.Revenue, a.COGS), a.OPEX),
                            a.Non_Cash_Adjustments), a.Revenue)
        ELSE Zero,
     netMargin |-> IF NotZero(a.Revenue) THEN Percent(a.NetIncome, a.Revenue) ELSE Zero]

\* Lines 43-48: derived metrics (a.NetIncome is finalNetIncome here).
Metrics(a) ==
    [grossProfit |-> NumSub(a.Revenue, a.COGS),
     grossMargin |->
        IF NotZero(a.Revenue) THEN Percent(NumSub(a.Revenue, a.COGS), a.Revenue) ELSE Zero,
     opexMargin |-> IF NotZero(a.Revenue) THEN Percent(a.OPEX, a.Revenue) ELSE Zero,
     EBITDA |->
        NumAdd(NumSub(NumSub(a.Revenue, a.COGS), a.OPEX), a.Non_Cash_Adjustments),
     EBITDA_Margin |->
        IF NotZero(a.Revenue)
        THEN Percent(NumAdd(NumSub(NumSub(a.Revenue, a.COGS), a.OPEX),
                            a.Non_Cash_Adjustments), a.Revenue)
        ELSE Zero,
     netMargin |-> IF NotZero(a.Revenue) THEN Percent(a.NetIncome, a.Revenue) ELSE Zero]

\* plan !== null ? actual - plan : null
VarAbs(actual, plan) == IF ~IsNull(plan) THEN NumSub(actual, plan) ELSE Null

\* A variant of the percentage variance that divides by a plan of 0.
VarPerc_NoZeroGuard(actual, plan) ==
    IF ~IsNull(plan) THEN Percent(VarAbs(actual, plan), plan) ELSE Null

\* plan !== null && plan !== 0 ? (varAbs / plan) * 100 : null
VarPerc(actual, plan) ==
    IF ~IsNull(plan) /\ NotZero(plan) THEN Percent(VarAbs(actual, plan), plan) ELSE Null

\* A variant of lines 58-60 that leaves the plan non-cash adjustments out.
EbitdaPlan_WithoutNonCash(p) ==
    IF ~IsNull(p.plan_Revenue) /\ ~IsNull(p.plan_COGS) /\ ~IsNull(p.plan_OPEX)
    THEN NumSub(NumSub(p.plan_Revenue, p.plan_COGS), p.plan_OPEX)
    ELSE Null

\* Lines 58-60: ebitdaPlan
EbitdaPlan(p) ==
    IF ~IsNull(p.plan_Revenue) /\ ~IsNull(p.plan_COGS) /\ ~IsNull(p.plan_OPEX)
    THEN NumAdd(NumSub(NumSub(p.plan_Revenue, p.plan_COGS), p.plan_OPEX),
                p.plan_Non_Cash_Adjustments)
    ELSE Null

\* Lines 51-65: variances; ebitdaPlan is EbitdaPlan(p).
Variances(a, p, EBITDA, ebitdaPlan) ==
    [revVarAbs |-> VarAbs(a.Revenue, p.plan_Revenue),
     revVarPerc |-> VarPerc(a.Revenue, p.plan_Revenue),
     cogsVarAbs |-> VarAbs(a.COGS, p.plan_COGS),
     cogsVarPerc |-> VarPerc(a.COGS, p.plan_COGS),
     opexVarAbs |-> VarAbs(a.OPEX, p.plan_OPEX),
     opexVarPerc |-> VarPerc(a.OPEX, p.plan_OPEX),
     ebitdaPlan |-> ebitdaPlan,
     ebitdaVarAbs |-> VarAbs(EBITDA, ebitdaPlan),
     ebitdaVarPerc |-> VarPerc(EBITDA, ebitdaPlan),
     netIncomeVarAbs |-> VarAbs(a.NetIncome, p.plan_NetIncome),
     netIncomeVarPerc |-> VarPerc(a.NetIncome, p.plan_NetIncome)]

\* Lines 68-107: the returned object; the four growth fields start as null.
BuildRow(row, index, q, a, p, m, v) ==
    [id |-> RowId(row, index),
     Quarter |-> row.Quarter,
     Year |-> q.year,
     quarterIndex |-> q.quarterIndex,
     sortKey |-> q.sortKey,
     Region |-> OrAll(row.Region),
     Product |-> OrAll(row.Product),
     Revenue |-> a.Revenue,
     COGS |-> a.COGS,
     OPEX |-> a.OPEX,
     Non_Cash_Adjustments |-> a.Non_Cash_Adjustments,
     NetIncome |-> a.NetIncome,
     plan_Revenue |-> p.plan_Revenue,
     plan_COGS |-> p.plan_COGS,
     plan_OPEX |-> p.plan_OPEX,
     plan_Non_Cash_Adjustments |-> p.plan_Non_Cash_Adjustments,
     plan_NetIncome |-> p.plan_NetIncome,
     grossProfit |-> m.grossProfit,
     grossMargin |-> m.grossMargin,
     opexMargin |-> m.opexMargin,
     EBITDA |-> m.EBITDA,
     EBITDA_Margin |-> m.EBITDA_Margin,
     netMargin |-> m.netMargin,
     qoqRevenueGrowth |-> Null,
     qoqNetIncomeGrowth |-> Null,
     yoyRevenueGrowth |-> Null,
     yoyNetIncomeGrowth |-> Null,
     revVarAbs |-> v.revVarAbs,
     revVarPerc |-> v.revVarPerc,
     cogsVarAbs |-> v.cogsVarAbs,
     cogsVarPerc |-> v.cogsVarPerc,
     opexVarAbs |-> v.opexVarAbs,
     opexVarPerc |-> v.opexVarPerc,
     ebitdaPlan |-> v.ebitdaPlan,
     ebitdaVarAbs |-> v.ebitdaVarAbs,
     ebitdaVarPerc |-> v.ebitdaVarPerc,
     netIncomeVarAbs |-> v.netIncomeVarAbs,
     netIncomeVarPerc |-> v.netIncomeVarPerc]

\* A variant of lines 68-73 that takes Year from the Year column when it holds a number.
WithVariances_YearColumn(row, index, a, p, m) ==
    BuildRow(row, index,
             [parseQuarter(row.Quarter) EXCEPT !.year = safeParseFloat(row.Year, @)],
             a, p, m, Variances(a, p, m.EBITDA, EbitdaPlan(p)))

WithVariances(row, index, a, p, m) ==
    BuildRow(row, index, parseQuarter(row.Quarter), a, p, m,
             Variances(a, p, m.EBITDA, EbitdaPlan(p)))

WithPlan(row, index, a) ==
    WithVariances(row, index, a, ResolvePlanNetIncome(Plan(row, a)), Metrics(a))

\* The callback of rawData.map for a row whose quarter label parses; index is
\* the zero-based position of the row in rawData.
NormalizeRow(row, index) == WithPlan(row, index, ResolveNetIncome(Actuals(row)))

(***************************************************************************)
(* .sort((a, b) => a.sortKey - b.sortKey): Array.prototype.sort is stable  *)
(***************************************************************************)
\* A variant of the comparator that orders by year alone.
CompareSortKey_ByYear(a, b) == NumSign(NumSub(a.Year, b.Year))

\* A variant of the comparator that orders the latest period first.
CompareSortKey_Descending(a, b) == NumSign(NumSub(b.sortKey, a.sortKey))

\* The comparator: negative, zero or positive.
CompareSortKey(a, b) == NumSign(NumSub(a.sortKey, b.sortKey))

\* A variant of the insertion that keeps one row per period.
RECURSIVE InsertSorted_OnePerPeriod(_, _)
InsertSorted_OnePerPeriod(sorted, x) ==
    IF sorted = <<>> THEN <<x>>
    ELSE IF CompareSortKey(Head(sorted), x) > 0 THEN <<x>> \o sorted
    ELSE IF CompareSortKey(Head(sorted), x) = 0 THEN sorted
    ELSE <<Head(sorted)>> \o InsertSorted_OnePerPeriod(Tail(sorted), x)

\* A variant of the insertion that puts x before the rows of its own period.
RECURSIVE InsertSorted_BeforeEqual(_, _)
InsertSorted_BeforeEqual(sorted, x) ==
    IF sorted = <<>> THEN <<x>>
    ELSE IF CompareSortKey(Head(sorted), x) >= 0 THEN <<x>> \o sorted
    ELSE <<Head(sorted)>> \o InsertSorted_BeforeEqual(Tail(sorted), x)

\* x goes before the first element that the comparator puts after it.
RECURSIVE InsertSorted(_, _)
InsertSorted(sorted, x) ==
    IF sorted = <<>> THEN <<x>>
    ELSE IF CompareSortKey(Head(sorted), x) > 0 THEN <<x>> \o sorted
    ELSE <<Head(sorted)>> \o InsertSorted(Tail(sorted), x)

RECURSIVE SortBySortKey(_)
SortBySortKey(arr) ==
    IF arr = <<>> THEN <<>>
    ELSE InsertSorted(SortBySortKey(SubSeq(arr, 1, Len(arr) - 1)), arr[Len(arr)])

(***************************************************************************)
(* Second map: growth enrichment of the row at 1-based position i of arr   *)
(***************************************************************************)
\* A variant of the growth that divides by the current value.
Growth_OverCurrent(cur, prev) == Percent(NumSub(cur, prev), cur)

\* ((current - previous) / previous) * 100
Growth(cur, prev) == Percent(NumSub(cur, prev), prev)

\* A variant of the search that ignores the region.
FindPrevYearQuarter_AnyRegion(arr, currentRow) ==
    LET matches == {j \in 1..Len(arr) :
                      /\ NumEq(arr[j].Year, NumSub(currentRow.Year, IntNum(1)))
                      /\ NumEq(arr[j].quarterIndex, currentRow.quarterIndex)
                      /\ arr[j].Product = currentRow.Product}
    IN  IF matches = {} THEN 0
        ELSE CHOOSE j \in matches : \A m \in matches : j <= m

\* A variant of the search that returns the last match.
FindPrevYearQuarter_LastMatch(arr, currentRow) ==
    LET matches == {j \in 1..Len(arr) :
                      /\ NumEq(arr[j].Year, NumSub(currentRow.Year, IntNum(1)))
                      /\ NumEq(arr[j].quarterIndex, currentRow.quarterIndex)
                      /\ arr[j].Region = currentRow.Region
                      /\ arr[j].Product = currentRow.Product}
    IN  IF matches = {} THEN 0
        ELSE CHOOSE j \in matches : \A m \in matches : m <= j

\* arr.find(pred): the position of the first match, 0 when there is none.
FindPrevYearQuarter(arr, currentRow) ==
    LET matches == {j \in 1..Len(arr) :
                      /\ NumEq(arr[j].Year, NumSub(currentRow.Year, IntNum(1)))
                      /\ NumEq(arr[j].quarterIndex, currentRow.quarterIndex)
                      /\ arr[j].Region = currentRow.Region
                      /\ arr[j].Product = currentRow.Product}
    IN  IF matches = {} THEN 0
        ELSE CHOOSE j \in matches : \A m \in matches : j <= m

\* A variant of lines 117-124 that gives no quarter-over-quarter revenue growth
\* once the previous row carries one.
EnrichRow_ReadsPrevGrowth(arr, i) ==
    LET currentRow == arr[i]
        hasPrev == i > 1
        prevQuarter == arr[i - 1]
        qoqRevenueGrowth ==
            IF hasPrev /\ NotZero(prevQuarter.Revenue) /\ IsNull(prevQuarter.qoqRevenueGrowth)
            THEN Growth(currentRow.Revenue, prevQuarter.Revenue) ELSE Null
        qoqNetIncomeGrowth ==
            IF hasPrev /\ NotZero(prevQuarter.NetIncome)
            THEN Growth(currentRow.NetIncome, prevQuarter.NetIncome) ELSE Null
        p == FindPrevYearQuarter(arr, currentRow)
        prevYearQuarter == arr[p]
        yoyRevenueGrowth ==
            IF p # 0 /\ NotZero(prevYearQuarter.Revenue)
            THEN Growth(currentRow.Revenue, prevYearQuarter.Revenue) ELSE Null
        yoyNetIncomeGrowth ==
            IF p # 0 /\ NotZero(prevYearQuarter.NetIncome)
            THEN Growth(currentRow.NetIncome, prevYearQuarter.NetIncome) ELSE Null
    IN  [currentRow EXCEPT !.qoqRevenueGrowth = qoqRevenueGrowth,
                           !.qoqNetIncomeGrowth = qoqNetIncomeGrowth,
                           !.yoyRevenueGrowth = yoyRevenueGrowth,
                           !.yoyNetIncomeGrowth = yoyNetIncomeGrowth]

\* A variant of lines 145-151 that spreads the previous year's row when there is one.
EnrichRow_SpreadsPeer(arr, i) ==
    LET currentRow == arr[i]
        hasPrev == i > 1
        prevQuarter == arr[i - 1]
        qoqRevenueGrowth ==
            IF hasPrev /\ NotZero(prevQuarter.Revenue)
            THEN Growth(currentRow.Revenue, prevQuarter.Revenue) ELSE Null
        qoqNetIncomeGrowth ==
            IF hasPrev /\ NotZero(prevQuarter.NetIncome)
            THEN Growth(currentRow.NetIncome, prevQuarter.NetIncome) ELSE Null
        p == FindPrevYearQuarter(arr, currentRow)
        prevYearQuarter == arr[p]
        yoyRevenueGrowth ==
            IF p # 0 /\ NotZero(prevYearQuarter.Revenue)
            THEN Growth(currentRow.Revenue, prevYearQuarter.Revenue) ELSE Null
        yoyNetIncomeGrowth ==
            IF p # 0 /\ NotZero(prevYearQuarter.NetIncome)
            THEN Growth(currentRow.NetIncome, prevYearQuarter.NetIncome) ELSE Null
        spread == IF p # 0 THEN prevYearQuarter ELSE currentRow
    IN  [spread EXCEPT !.qoqRevenueGrowth = qoqRevenueGrowth,
                       !.qoqNetIncomeGrowth = qoqNetIncomeGrowth,
                       !.yoyRevenueGrowth = yoyRevenueGrowth,
                       !.yoyNetIncomeGrowth = yoyNetIncomeGrowth]

\* A variant of lines 111-152 whose previous quarter is the nearest earlier row
\* of the same region and product.
EnrichRow_PrevInSegment(arr, i) ==
    LET currentRow == arr[i]
        prevs == {j \in 1..(i - 1) : /\ arr[j].Region = currentRow.Region
                                     /\ arr[j].Product = currentRow.Product}
        hasPrev == prevs # {}
        prevQuarter == arr[CHOOSE j \in prevs : \A m \in prevs : m <= j]
        qoqRevenueGrowth ==
            IF hasPrev /\ NotZero(prevQuarter.Revenue)
            THEN Growth(currentRow.Revenue, prevQuarter.Revenue) ELSE Null
        qoqNetIncomeGrowth ==
            IF hasPrev /\ NotZero(prevQuarter.NetIncome)
            THEN Growth(currentRow.NetIncome, prevQuarter.NetIncome) ELSE Null
        p == FindPrevYearQuarter(arr, currentRow)
        prevYearQuarter == arr[p]
        yoyRevenueGrowth ==
            IF p # 0 /\ NotZero(prevYearQuarter.Revenue)
            THEN Growth(currentRow.Revenue, prevYearQuarter.Revenue) ELSE Null
        yoyNetIncomeGrowth ==
            IF p # 0 /\ NotZero(prevYearQuarter.NetIncome)
            THEN Growth(currentRow.NetIncome, prevYearQuarter.NetIncome) ELSE Null
    IN  [currentRow EXCEPT !.qoqRevenueGrowth = qoqRevenueGrowth,
                           !.qoqNetIncomeGrowth = qoqNetIncomeGrowth,
                           !.yoyRevenueGrowth = yoyRevenueGrowth,
                           !.yoyNetIncomeGrowth = yoyNetIncomeGrowth]

\* Lines 111-152: the second map's callback on the row at position i.
EnrichRow(arr, i) ==
    LET currentRow == arr[i]
        hasPrev == i > 1
        prevQuarter == arr[i - 1]
        qoqRevenueGrowth ==
            IF hasPrev /\ NotZero(prevQuarter.Revenue)
            THEN Growth(currentRow.Revenue, prevQuarter.Revenue) ELSE Null
        qoqNetIncomeGrowth ==
            IF hasPrev /\ NotZero(prevQuarter.NetIncome)
            THEN Growth(currentRow.NetIncome, prevQuarter.NetIncome) ELSE Null
        p == FindPrevYearQuarter(arr, currentRow)
        prevYearQuarter == arr[p]
        yoyRevenueGrowth ==
            IF p # 0 /\ NotZero(prevYearQuarter.Revenue)
            THEN Growth(currentRow.Revenue, prevYearQuarter.Revenue) ELSE Null
        yoyNetIncomeGrowth ==
            IF p # 0 /\ NotZero(prevYearQuarter.NetIncome)
            THEN Growth(currentRow.NetIncome, prevYearQuarter.NetIncome) ELSE Null
    IN  [currentRow EXCEPT !.qoqRevenueGrowth = qoqRevenueGrowth,
                           !.qoqNetIncomeGrowth = qoqNetIncomeGrowth,
                           !.yoyRevenueGrowth = yoyRevenueGrowth,
                           !.yoyNetIncomeGrowth = yoyNetIncomeGrowth]

\* The value processFinancialData returns for an input whose labels all parse.
processFinancialData(rows) ==
    LET sorted == SortBySortKey([k \in 1..Len(rows) |-> NormalizeRow(rows[k], k - 1)])
    IN  [k \in 1..Len(rows) |-> EnrichRow(sorted, k)]

(***************************************************************************)
(* Inputs                                                                  *)
(***************************************************************************)
MaxRows == 3

MaxOverrides == 1

Q1_2022 == <<"Q", "1", "-", "2", "0", "2", "2">>
Q4_2022 == <<"Q", "4", "-", "2", "0", "2", "2">>
Q1_2023 == <<"Q", "1", "-", "2", "0", "2", "3">>
Q2_2023 == <<"Q", "2", "-", "2", "0", "2", "3">>
WrongOrder == <<"2", "0", "2", "3", "-", "Q", "1">>
S0 == <<"0">>
S100 == <<"1", "0", "0">>
East == <<"E", "a", "s", "t">>

\* Quarter labels the code accepts, and labels it must reject.
GoodLabels ==
    {Q4_2022, Q1_2023,
     <<"Q", "3", "-", "0", "0", "0", "7">>, <<"Q", "2", "-", "9", "9", "9", "9">>}

BadLabels ==
    {Undefined, <<>>, WrongOrder,
     <<"Q", "0", "-", "2", "0", "2", "3">>, <<"Q", "5", "-", "2", "0", "2", "3">>,
     <<"q", "1", "-", "2", "0", "2", "3">>,
     <<" ", "Q", "1", "-", "2", "0", "2", "3">>, <<"Q", "1", "-", "2", "0", "2", "3", " ">>,
     <<"Q", "1", "-", "2", "0", "2">>, <<"Q", "1", "-", "2", "0", "2", "3", "4">>,
     <<"Q", "1", "-", "2", "0", "2", "x">>}

\* Texts of a numeric column.
NumStrs ==
    {Undefined, <<>>, <<" ", "\t">>, S0, S100, <<"-", "5">>,
     <<"1", ".", "5">>, <<" ", "7", " ">>, <<"1", "2", "a", "b", "c">>,
     <<"a", "b", "c">>, <<"I", "n", "f", "i", "n", "i", "t", "y">>, <<"2", "e", "1">>}

\* Texts of a segment column (Region, Product).
SegStrs == {Undefined, <<>>, <<" ">>, East, <<"A", "-", "B">>}

YearStrs == {Undefined, <<"2", "0", "2", "3">>, <<"1", "9", "9", "9">>}

NumericColumns ==
    {"Revenue", "COGS", "OPEX", "Non_Cash_Adjustments", "NetIncome", "Plan_Revenue",
     "Plan_COGS", "Plan_OPEX", "Plan_Non_Cash_Adjustments", "Plan_NetIncome"}

Columns == {"Quarter", "Year", "Region", "Product"} \cup NumericColumns

ColumnTexts(c) ==
    CASE c = "Quarter" -> GoodLabels \cup BadLabels
      [] c = "Year" -> YearStrs
      [] c \in {"Region", "Product"} -> SegStrs
      [] OTHER -> NumStrs

\* A row with actuals only: the example of the net income derivation.
ActualsRow ==
    [Quarter |-> Q1_2023, Year |-> <<"2", "0", "2", "3">>, Region |-> Undefined,
     Product |-> Undefined, Revenue |-> S100, COGS |-> <<"4", "0">>, OPEX |-> <<"2", "0">>,
     Non_Cash_Adjustments |-> Undefined, NetIncome |-> Undefined,
     Plan_Revenue |-> Undefined, Plan_COGS |-> Undefined, Plan_OPEX |-> Undefined,
     Plan_Non_Cash_Adjustments |-> Undefined, Plan_NetIncome |-> Undefined]

\* A row with plan revenue, COGS and OPEX but no explicit plan net income.
PlanRow ==
    [ActualsRow EXCEPT !.Region = East, !.Non_Cash_Adjustments = <<"5">>,
                       !.Plan_Revenue = <<"9", "0">>, !.Plan_COGS = <<"4", "5">>,
                       !.Plan_OPEX = <<"2", "5">>]

BaseRows == {ActualsRow, PlanRow}

\* The rows that differ from a base row in at most k columns.
RECURSIVE RowsWithOverrides(_)
RowsWithOverrides(k) ==
    IF k = 0 THEN BaseRows
    ELSE LET prev == RowsWithOverrides(k - 1)
         IN  prev \cup UNION {{[r EXCEPT ![c] = v] : v \in ColumnTexts(c)} :
                                r \in prev, c \in Columns}

SingleRows == RowsWithOverrides(MaxOverrides)

\* The rows of a batch: a few periods, some malformed, with and without revenue.
BatchRows ==
    {[ActualsRow EXCEPT !.Quarter = q] :
        q \in {Q1_2022, Q4_2022, Q1_2023, Q2_2023, WrongOrder, Undefined}}
    \cup {[ActualsRow EXCEPT !.Quarter = q, !.Revenue = S0] : q \in {Q1_2022, Q4_2022}}

West == <<"W", "e", "s", "t">>
Soap == <<"S", "o", "a", "p">>
S90 == <<"9", "0">>
S110 == <<"1", "1", "0">>
S120 == <<"1", "2", "0">>

\* Rows for the growth comparisons, all with COGS 40 and OPEX 20.
East22 == [ActualsRow EXCEPT !.Quarter = Q1_2022, !.Region = East]
East22NoRevenue == [East22 EXCEPT !.Revenue = S0]
East22Q4 == [East22 EXCEPT !.Quarter = Q4_2022, !.Revenue = S110, !.NetIncome = S0]
East23 == [East22 EXCEPT !.Quarter = Q1_2023, !.Revenue = S120]
East23Low == [East23 EXCEPT !.Revenue = S90]
West23 == [East23 EXCEPT !.Region = West]
EastSoap23 == [East23 EXCEPT !.Product = Soap]

GrowthRows ==
    {East22, East22NoRevenue, East22Q4, East23, East23Low, West23, EastSoap23,
     [East23 EXCEPT !.Quarter = WrongOrder]}

\* Rows whose segment names hold the separator of the id: region "A-B" with no
\* product, and region "A" with product "B-All".
DashRegion23 == [ActualsRow EXCEPT !.Region = <<"A", "-", "B">>]
DashProduct23 ==
    [ActualsRow EXCEPT !.Region = <<"A">>, !.Product = <<"B", "-", "A", "l", "l">>]

SegmentRows ==
    {ActualsRow, DashRegion23, DashProduct23, East22, [ActualsRow EXCEPT !.Quarter = <<>>]}

(***************************************************************************)
(* State machine: one call of processFinancialData(rawData)                *)
(*   pc = "map"      rawData.map(...) is running; dataWithMetrics holds    *)
(*                   the rows produced so far                              *)
(*   pc = "enrich"   the array is sorted; dataWithMetrics.map(...) is      *)
(*                   running; result holds the rows produced so far        *)
(*   pc = "returned" the call returned result                              *)
(*   pc = "thrown"   the call threw error                                  *)
(***************************************************************************)
NoError == [thrown |-> FALSE, message |-> NoMessage]

Start(rows) ==
    /\ rawData = rows
    /\ pc = "map"
    /\ dataWithMetrics = <<>>
    /\ result = <<>>
    /\ error = NoError

Init == \E n \in 0..MaxRows : \E rows \in [1..n -> BatchRows] : Start(rows)

InitRow == \E r \in SingleRows : Start(<<r>>)

InitGrowth == \E n \in 0..MaxRows : \E rows \in [1..n -> GrowthRows] : Start(rows)

InitSegments == \E n \in 0..MaxRows : \E rows \in [1..n -> SegmentRows] : Start(rows)

\* One call of the first map's callback on a row whose label parses.
MapRow ==
    /\ pc = "map"
    /\ Len(dataWithMetrics) < Len(rawData)
    /\ LET index == Len(dataWithMetrics)
           row == rawData[index + 1]
       IN  /\ parseQuarter(row.Quarter).ok
           /\ dataWithMetrics' = Append(dataWithMetrics, NormalizeRow(row, index))
    /\ UNCHANGED <<rawData, pc, result, error>>

\* The callback throws: the map, and with it the whole call, is abandoned.
MapThrow ==
    /\ pc = "map"
    /\ Len(dataWithMetrics) < Len(rawData)
    /\ LET q == parseQuarter(rawData[Len(dataWithMetrics) + 1].Quarter)
       IN  /\ ~q.ok
           /\ error' = [thrown |-> TRUE, message |-> q.message]
    /\ pc' = "thrown"
    /\ dataWithMetrics' = <<>>
    /\ UNCHANGED <<rawData, result>>

\* A variant of the sort that leaves the order of rows of one period to the engine.
Sort_AnyTieOrder ==
    /\ pc = "map"
    /\ Len(dataWithMetrics) = Len(rawData)
    /\ \E f \in [1..Len(dataWithMetrics) -> 1..Len(dataWithMetrics)] :
          /\ \A i, j \in 1..Len(dataWithMetrics) : i # j => f[i] # f[j]
          /\ \A i, j \in 1..Len(dataWithMetrics) :
                i < j => CompareSortKey(dataWithMetrics[f[i]], dataWithMetrics[f[j]]) <= 0
          /\ dataWithMetrics' = [k \in 1..Len(dataWithMetrics) |-> dataWithMetrics[f[k]]]
    /\ pc' = "enrich"
    /\ UNCHANGED <<rawData, result, error>>

\* A variant of the sort that reorders the caller's array along with the result.
Sort_InputInPlace ==
    /\ pc = "map"
    /\ Len(dataWithMetrics) = Len(rawData)
    /\ dataWithMetrics' = SortBySortKey(dataWithMetrics)
    /\ rawData' =
          [k \in 1..Len(rawData) |->
              rawData[CHOOSE i \in 1..Len(rawData) :
                         RowId(rawData[i], i - 1) = SortBySortKey(dataWithMetrics)[k].id]]
    /\ pc' = "enrich"
    /\ UNCHANGED <<result, error>>

\* The first map is complete: sort its result in place.
Sort ==
    /\ pc = "map"
    /\ Len(dataWithMetrics) = Len(rawData)
    /\ dataWithMetrics' = SortBySortKey(dataWithMetrics)
    /\ pc' = "enrich"
    /\ UNCHANGED <<rawData, result, error>>

\* One call of the second map's callback.
Enrich ==
    /\ pc = "enrich"
    /\ Len(result) < Len(dataWithMetrics)
    /\ result' = Append(result, EnrichRow(dataWithMetrics, Len(result) + 1))
    /\ UNCHANGED <<rawData, pc, dataWithMetrics, error>>

Return ==
    /\ pc = "enrich"
    /\ Len(result) = Len(dataWithMetrics)
    /\ pc' = "returned"
    /\ UNCHANGED <<rawData, dataWithMetrics, result, error>>

Next == MapRow \/ MapThrow \/ Sort \/ Enrich \/ Return

Spec == Init /\ [][Next]_vars

SpecGrowth == InitGrowth /\ [][Next]_vars

SpecSegments == InitSegments /\ [][Next]_vars

SpecRow == InitRow /\ [][Next]_vars

(***************************************************************************)
(* Vocabulary of the properties                                            *)
(***************************************************************************)
\* A well-formed quarter label: 'Q', one digit 1-4, '-', exactly four digits.
WellFormedLabel(s) ==
    /\ s # Undefined
    /\ Len(s) = 7
    /\ s[1] = "Q"
    /\ s[2] \in {"1", "2", "3", "4"}
    /\ s[3] = "-"
    /\ \A k \in 4..7 : s[k] \in {"0", "1", "2", "3", "4", "5", "6", "7", "8", "9"}

\* The year and the quarter a well-formed label denotes.
LabelYear(s) ==
    1000 * DigitVal(s[4]) + 100 * DigitVal(s[5]) + 10 * DigitVal(s[6]) + DigitVal(s[7])

LabelQuarter(s) == DigitVal(s[2])

BadRows == {i \in 1..Len(rawData) : ~WellFormedLabel(rawData[i].Quarter)}

FirstBadRow == CHOOSE i \in BadRows : \A j \in BadRows : i <= j

AllWellFormed == BadRows = {}

\* a < b and a <= b on finite numbers
FinLess(a, b) == a.k = "fin" /\ b.k = "fin" /\ a.n * b.d < b.n * a.d

FinLeq(a, b) == a.k = "fin" /\ b.k = "fin" /\ a.n * b.d <= b.n * a.d

\* The output row built from the raw row at 1-based position i (ids carry the
\* zero-based input position).
OutputsOf(i) == {j \in 1..Len(result) : result[j].id = RowId(rawData[i], i - 1)}

OutputOf(i) == result[CHOOSE j \in OutputsOf(i) : TRUE]

(***************************************************************************)
(* C1: if any row's quarter label is malformed, the call produces no rows  *)
(* at all and throws the format error; the error names the malformed label *)
(* of lowest input index and the expected format, wherever the bad rows    *)
(* sit.                                                                    *)
(***************************************************************************)
C1_MalformedLabelAbortsBatch ==
    ~AllWellFormed =>
        /\ pc \in {"map", "thrown"}
        /\ result = <<>>
        /\ pc = "map" =>
              /\ Len(dataWithMetrics) < FirstBadRow
              /\ Len(dataWithMetrics) + 1 = FirstBadRow =>
                    ~parseQuarter(rawData[FirstBadRow].Quarter).ok
        /\ pc = "thrown" =>
              /\ error.thrown
              /\ dataWithMetrics = <<>>
              /\ error.message.label = TemplateStr(rawData[FirstBadRow].Quarter)
              /\ error.message.prefix = "Invalid Quarter format: \""
              /\ error.message.suffix = "\". Expected format is \"Q1-2023\"."

\* Two different malformed labels, the first of them after a well-formed row.
C1_Witness ==
    /\ pc = "thrown"
    /\ Len(rawData) = 3
    /\ BadRows = {2, 3}
    /\ rawData[2].Quarter # rawData[3].Quarter
    /\ error.message.label = rawData[2].Quarter

(***************************************************************************)
(* C2: when every label is well-formed, the returned sequence has the      *)
(* length of the input, and every input row gives exactly one output row   *)
(* (none dropped, duplicated or added); the empty input gives the empty    *)
(* output.                                                                 *)
(***************************************************************************)
C2_LengthPreserved ==
    (AllWellFormed /\ pc = "returned") =>
        /\ Len(result) = Len(rawData)
        /\ \A i \in 1..Len(rawData) : Cardinality(OutputsOf(i)) = 1

\* Three rows, two of the same period, returned in another order than given.
C2_Witness ==
    /\ pc = "returned"
    /\ Len(rawData) = 3
    /\ rawData[1].Quarter = rawData[3].Quarter
    /\ result[1].id = RowId(rawData[2], 1)

(***************************************************************************)
(* C3: in every output, adjacent rows are in non-decreasing sortKey order, *)
(* whatever the order of the input.                                        *)
(***************************************************************************)
C3_OutputSorted ==
    pc = "returned" =>
        \A j \in 1..(Len(result) - 1) : FinLeq(result[j].sortKey, result[j + 1].sortKey)

\* An input given in strictly decreasing period order.
C3_Witness ==
    /\ pc = "returned"
    /\ Len(rawData) = 3
    /\ rawData[1].Quarter = Q2_2023
    /\ rawData[2].Quarter = Q4_2022
    /\ rawData[3].Quarter = Q1_2022

(***************************************************************************)
(* C4: parseQuarter accepts a label exactly when it is 'Q', a digit 1-4,   *)
(* '-' and four digits with nothing around them; an accepted label yields  *)
(* year = the four digits, quarterIndex = the digit and sortKey = year +   *)
(* quarterIndex/4 ("Q1-2023": 2023, 1, 2023.25); every other label throws  *)
(* the format error.  Stated of parseQuarter on every input label and of   *)
(* what the call does with it.                                             *)
(***************************************************************************)
C4_ParseQuarter ==
    /\ \A i \in 1..Len(rawData) :
          LET s == rawData[i].Quarter
              q == parseQuarter(s)
          IN  /\ q.ok <=> WellFormedLabel(s)
              /\ q.ok =>
                    /\ q.year = IntNum(LabelYear(s))
                    /\ q.quarterIndex = IntNum(LabelQuarter(s))
                    /\ q.sortKey = Fin(4 * LabelYear(s) + LabelQuarter(s), 4)
              /\ ~q.ok => q.message = QuarterErrorMessage(s)
    /\ pc = "thrown" =>
          /\ ~AllWellFormed
          /\ error.thrown
          /\ error.message.label = TemplateStr(rawData[FirstBadRow].Quarter)
    /\ pc = "returned" =>
          /\ AllWellFormed
          /\ \A i \in 1..Len(rawData) :
                /\ OutputsOf(i) # {}
                /\ OutputOf(i).Year = IntNum(LabelYear(rawData[i].Quarter))
                /\ OutputOf(i).quarterIndex = IntNum(LabelQuarter(rawData[i].Quarter))
                /\ OutputOf(i).sortKey =
                      Fin(4 * LabelYear(rawData[i].Quarter) + LabelQuarter(rawData[i].Quarter), 4)
    /\ rawData = <<ActualsRow>> /\ pc = "returned" =>
          /\ result[1].Year = IntNum(2023)
          /\ result[1].quarterIndex = IntNum(1)
          /\ result[1].sortKey = Fin(202325, 100)

\* A well-formed label followed by a space is rejected.
C4_Witness ==
    /\ pc = "thrown"
    /\ Len(rawData) = 1
    /\ rawData[1].Quarter = <<"Q", "1", "-", "2", "0", "2", "3", " ">>
    /\ error.message.label = rawData[1].Quarter

(***************************************************************************)
(* C5: the sort key orders periods chronologically and identifies them:    *)
(* for two rows with well-formed labels (year1, q1) and (year2, q2), the   *)
(* keys are equal exactly when year1 = year2 and q1 = q2, and key1 < key2  *)
(* exactly when (year1, q1) is lexicographically smaller; Q4 of a year is  *)
(* before Q1 of the next.                                                  *)
(***************************************************************************)
C5_SortKeyChronological ==
    pc = "map" =>
        \A i, j \in 1..Len(dataWithMetrics) :
            LET a == dataWithMetrics[i]
                b == dataWithMetrics[j]
                y1 == LabelYear(rawData[i].Quarter)
                q1 == LabelQuarter(rawData[i].Quarter)
                y2 == LabelYear(rawData[j].Quarter)
                q2 == LabelQuarter(rawData[j].Quarter)
            IN  /\ a.sortKey = b.sortKey <=> (y1 = y2 /\ q1 = q2)
                /\ FinLess(a.sortKey, b.sortKey) <=> (y1 < y2 \/ (y1 = y2 /\ q1 < q2))

\* Q1 of 2023 given before Q4 of 2022: the later period has the larger key.
C5_Witness ==
    /\ pc = "map"
    /\ Len(dataWithMetrics) = 2
    /\ rawData[1].Quarter = Q1_2023
    /\ rawData[2].Quarter = Q4_2022
    /\ FinLess(dataWithMetrics[2].sortKey, dataWithMetrics[1].sortKey)

(***************************************************************************)
(* Vocabulary of the numeric columns                                       *)
(***************************************************************************)
\* The output field that holds the value of a raw numeric column.
OutField(c) ==
    CASE c = "Plan_Revenue" -> "plan_Revenue"
      [] c = "Plan_COGS" -> "plan_COGS"
      [] c = "Plan_OPEX" -> "plan_OPEX"
      [] c = "Plan_Non_Cash_Adjustments" -> "plan_Non_Cash_Adjustments"
      [] c = "Plan_NetIncome" -> "plan_NetIncome"
      [] OTHER -> c

\* An absent or blank column: undefined, empty or only white space.
Blank(s) == s = Undefined \/ \A k \in 1..Len(s) : s[k] \in {" ", "\t"}

\* The texts of the inputs that are numbers, with their values.
NumberTexts ==
    {<<S0, Zero>>, <<S100, IntNum(100)>>, <<<<"-", "5">>, IntNum(-5)>>,
     <<<<"1", ".", "5">>, Fin(3, 2)>>, <<<<" ", "7", " ">>, IntNum(7)>>,
     <<<<"2", "e", "1">>, IntNum(20)>>, <<<<"4", "0">>, IntNum(40)>>,
     <<<<"2", "0">>, IntNum(20)>>, <<<<"5">>, IntNum(5)>>, <<<<"9", "0">>, IntNum(90)>>,
     <<<<"4", "5">>, IntNum(45)>>, <<<<"2", "5">>, IntNum(25)>>}

\* Texts that are not numbers: no number at all, or a number followed by other text.
NotNumberTexts == {<<"a", "b", "c">>, <<"1", "2", "a", "b", "c">>}

\* Every numeric field of an output row.
NumericFields ==
    {"Year", "quarterIndex", "sortKey", "Revenue", "COGS", "OPEX", "Non_Cash_Adjustments",
     "NetIncome", "plan_Revenue", "plan_COGS", "plan_OPEX", "plan_Non_Cash_Adjustments",
     "plan_NetIncome", "grossProfit", "grossMargin", "opexMargin", "EBITDA",
     "EBITDA_Margin", "netMargin", "qoqRevenueGrowth", "qoqNetIncomeGrowth",
     "yoyRevenueGrowth", "yoyNetIncomeGrowth", "revVarAbs", "revVarPerc", "cogsVarAbs",
     "cogsVarPerc", "opexVarAbs", "opexVarPerc", "ebitdaPlan", "ebitdaVarAbs",
     "ebitdaVarPerc", "netIncomeVarAbs", "netIncomeVarPerc"}

GrowthFields ==
    {"qoqRevenueGrowth", "qoqNetIncomeGrowth", "yoyRevenueGrowth", "yoyNetIncomeGrowth"}

(***************************************************************************)
(* C6: the malformed label is the only failure: when every label is        *)
(* well-formed the call never throws, whatever the other columns hold, and *)
(* returns one row per input row; a missing comparison period gives null   *)
(* growth and a zero denominator gives a 0 margin or a null percentage.    *)
(***************************************************************************)
C6_OnlyLabelFails ==
    AllWellFormed =>
        /\ pc # "thrown"
        /\ error = NoError
        /\ (pc = "map" /\ Len(dataWithMetrics) < Len(rawData)) =>
              parseQuarter(rawData[Len(dataWithMetrics) + 1].Quarter).ok
        /\ pc = "returned" =>
              /\ Len(result) = Len(rawData)
              /\ Len(result) = 1 => \A f \in GrowthFields : result[1][f] = Null
              /\ \A j \in 1..Len(result) :
                    /\ result[j].Revenue = Zero =>
                          /\ result[j].grossMargin = Zero
                          /\ result[j].opexMargin = Zero
                          /\ result[j].EBITDA_Margin = Zero
                          /\ result[j].netMargin = Zero
                    /\ result[j].plan_Revenue = Zero => result[j].revVarPerc = Null
                    /\ result[j].plan_COGS = Zero => result[j].cogsVarPerc = Null
                    /\ result[j].plan_OPEX = Zero => result[j].opexVarPerc = Null

\* A single row whose revenue is not a number: it returns, with revenue 0, the
\* margins 0 for their zero denominator and no growth for want of another row.
C6_Witness ==
    /\ pc = "returned"
    /\ Len(rawData) = 1
    /\ rawData[1].Revenue = <<"a", "b", "c">>
    /\ result[1].Revenue = Zero
    /\ result[1].grossMargin = Zero
    /\ result[1].qoqRevenueGrowth = Null

(***************************************************************************)
(* C7: a numeric column that is undefined, empty or only white space takes *)
(* its default: Revenue, COGS, OPEX and Non_Cash_Adjustments become 0; the *)
(* parsed Net Income and the parsed plan revenue, COGS, OPEX and net       *)
(* income become null.  A column holding a number yields that number; an   *)
(* explicit "0" yields 0, not the default.                                 *)
(***************************************************************************)
C7_BlankTakesDefault ==
    (pc = "returned" /\ AllWellFormed) =>
        \A i \in 1..Len(rawData) :
            LET raw == rawData[i]
                out == OutputOf(i)
            IN  /\ \A c \in {"Revenue", "COGS", "OPEX", "Non_Cash_Adjustments"} :
                      Blank(raw[c]) => out[c] = Zero
                /\ \A c \in {"Plan_Revenue", "Plan_COGS", "Plan_OPEX"} :
                      Blank(raw[c]) => out[OutField(c)] = Null
                /\ Blank(raw.NetIncome) =>
                      /\ safeParseFloat(raw.NetIncome, Null) = Null
                      /\ out.NetIncome = NumSub(NumSub(out.Revenue, out.COGS), out.OPEX)
                /\ Blank(raw.Plan_NetIncome) =>
                      /\ safeParseFloat(raw.Plan_NetIncome, Null) = Null
                      /\ Blank(raw.Plan_Revenue) => out.plan_NetIncome = Null
                /\ \A c \in NumericColumns : \A tv \in NumberTexts :
                      raw[c] = tv[1] => out[OutField(c)] = tv[2]

\* A plan column of white space only, next to actual columns that hold numbers.
C7_Witness ==
    /\ pc = "returned"
    /\ Len(rawData) = 1
    /\ rawData[1].Plan_Revenue = <<" ", "\t">>
    /\ rawData[1].Plan_COGS = <<"4", "5">>
    /\ result[1].plan_Revenue = Null
    /\ result[1].plan_COGS = IntNum(45)

(***************************************************************************)
(* C8: a numeric column whose text is not a number (no number at all, or a *)
(* number followed by other characters such as "12abc") gives the same     *)
(* output as if the column were absent.                                    *)
(***************************************************************************)
C8_UnparseableLikeAbsent ==
    (pc = "returned" /\ AllWellFormed) =>
        \A i \in 1..Len(rawData) : \A c \in NumericColumns :
            rawData[i][c] \in NotNumberTexts =>
                result = processFinancialData([rawData EXCEPT ![i][c] = Undefined])

(***************************************************************************)
(* C9: in every output row of a successful run every numeric field is a    *)
(* finite number or null, never NaN or an infinity.                        *)
(***************************************************************************)
C9_FiniteOrNull ==
    (pc = "returned" /\ AllWellFormed) =>
        \A j \in 1..Len(result) : \A f \in NumericFields :
            result[j][f].k \in {"fin", "null"}

(***************************************************************************)
(* C10: net income resolution: when the parse of the 'Net Income' column   *)
(* gives nothing (the column is absent, blank or has no number in it) the  *)
(* output 'Net Income' is Revenue - COGS - OPEX, without the non-cash      *)
(* adjustments; otherwise it is the parsed value as it is, an explicit 0   *)
(* included.  netMargin is computed from the resolved value (revenue 100,  *)
(* COGS 40, OPEX 20 and no net income: Net Income 40, netMargin 40).       *)
(***************************************************************************)
C10_NetIncomeResolution ==
    (pc = "returned" /\ AllWellFormed) =>
        \A i \in 1..Len(rawData) :
            LET raw == rawData[i]
                out == OutputOf(i)
                parsed == safeParseFloat(raw.NetIncome, Null)
                derived == NumSub(NumSub(out.Revenue, out.COGS), out.OPEX)
            IN  /\ out.NetIncome = IF parsed = Null THEN derived ELSE parsed
                /\ (Blank(raw.NetIncome) \/ raw.NetIncome = <<"a", "b", "c">>) =>
                      out.NetIncome = derived
                /\ \A tv \in NumberTexts : raw.NetIncome = tv[1] => out.NetIncome = tv[2]
                /\ out.netMargin =
                      IF out.Revenue = Zero THEN Zero
                      ELSE NumMul(NumDiv(out.NetIncome, out.Revenue), IntNum(100))
                /\ raw = ActualsRow => (out.NetIncome = IntNum(40) /\ out.netMargin = IntNum(40))

\* No net income given but non-cash adjustments present: they are left out.
C10_Witness ==
    /\ pc = "returned"
    /\ rawData = <<PlanRow>>
    /\ result[1].Non_Cash_Adjustments = IntNum(5)
    /\ result[1].NetIncome = IntNum(40)
    /\ result[1].netMargin = IntNum(40)

(***************************************************************************)
(* C11: margin zero-safety: in every output row whose Revenue is 0 (an     *)
(* explicit zero, an absent or blank column, or text with no number in it) *)
(* grossMargin, opexMargin, EBITDA_Margin and netMargin are exactly 0,     *)
(* whatever COGS, OPEX, the non-cash adjustments and the net income are.   *)
(***************************************************************************)
MarginFields == {"grossMargin", "opexMargin", "EBITDA_Margin", "netMargin"}

C11_MarginZeroSafety ==
    (pc = "returned" /\ AllWellFormed) =>
        /\ \A j \in 1..Len(result) :
              result[j].Revenue = Zero => \A f \in MarginFields : result[j][f] = Zero
        /\ \A i \in 1..Len(rawData) :
              (Blank(rawData[i].Revenue) \/ rawData[i].Revenue \in {S0, <<"a", "b", "c">>}) =>
                  /\ OutputOf(i).Revenue = Zero
                  /\ \A f \in MarginFields : OutputOf(i)[f] = Zero

\* An explicit zero revenue next to non-zero costs: profit is negative, margins are 0.
C11_Witness ==
    /\ pc = "returned"
    /\ Len(rawData) = 1
    /\ rawData[1].Revenue = S0
    /\ result[1].grossProfit = IntNum(-40)
    /\ result[1].NetIncome = IntNum(-60)
    /\ result[1].netMargin = Zero
    /\ result[1].grossMargin = Zero

(***************************************************************************)
(* C12: derived metrics: grossProfit = Revenue - COGS and EBITDA =         *)
(* Revenue - COGS - OPEX + Non_Cash_Adjustments in every row; in a row     *)
(* with Revenue # 0, grossMargin = grossProfit/Revenue*100, opexMargin =   *)
(* OPEX/Revenue*100, EBITDA_Margin = EBITDA/Revenue*100 and netMargin =    *)
(* NetIncome/Revenue*100 (percentages, already multiplied by 100).         *)
(***************************************************************************)
PercentOf(x, y) == NumMul(NumDiv(x, y), IntNum(100))

C12_DerivedMetrics ==
    (pc = "returned" /\ AllWellFormed) =>
        /\ \A j \in 1..Len(result) :
              LET r == result[j]
              IN  /\ r.grossProfit = NumSub(r.Revenue, r.COGS)
                  /\ r.EBITDA =
                        NumAdd(NumSub(NumSub(r.Revenue, r.COGS), r.OPEX), r.Non_Cash_Adjustments)
                  /\ r.Revenue # Zero =>
                        /\ r.grossMargin = PercentOf(r.grossProfit, r.Revenue)
                        /\ r.opexMargin = PercentOf(r.OPEX, r.Revenue)
                        /\ r.EBITDA_Margin = PercentOf(r.EBITDA, r.Revenue)
                        /\ r.netMargin = PercentOf(r.NetIncome, r.Revenue)
        /\ rawData = <<PlanRow>> =>
              /\ result[1].grossProfit = IntNum(60)
              /\ result[1].EBITDA = IntNum(45)
              /\ result[1].grossMargin = IntNum(60)
              /\ result[1].opexMargin = IntNum(20)
              /\ result[1].EBITDA_Margin = IntNum(45)
              /\ result[1].netMargin = IntNum(40)

\* Revenue 1.5 with non-cash adjustments 5: margins that are not whole numbers.
C12_Witness ==
    /\ pc = "returned"
    /\ Len(rawData) = 1
    /\ rawData[1].Revenue = <<"1", ".", "5">>
    /\ result[1].Non_Cash_Adjustments = IntNum(5)
    /\ result[1].EBITDA = Fin(-107, 2)
    /\ result[1].opexMargin = Fin(4000, 3)

(***************************************************************************)
(* C13: variance null-propagation, for each of revenue, COGS, OPEX, EBITDA *)
(* and net income in every output row: a null plan value gives a null      *)
(* absolute and a null percentage variance; a plan value of 0 gives        *)
(* absolute = actual - plan and a null percentage; any other plan value    *)
(* gives absolute = actual - plan and percentage = absolute / plan * 100.  *)
(***************************************************************************)
\* <<actual, plan, absolute variance, percentage variance>>
VarianceFields ==
    {<<"Revenue", "plan_Revenue", "revVarAbs", "revVarPerc">>,
     <<"COGS", "plan_COGS", "cogsVarAbs", "cogsVarPerc">>,
     <<"OPEX", "plan_OPEX", "opexVarAbs", "opexVarPerc">>,
     <<"EBITDA", "ebitdaPlan", "ebitdaVarAbs", "ebitdaVarPerc">>,
     <<"NetIncome", "plan_NetIncome", "netIncomeVarAbs", "netIncomeVarPerc">>}

C13_VarianceNullPropagation ==
    (pc = "returned" /\ AllWellFormed) =>
        /\ \A j \in 1..Len(result), t \in VarianceFields :
              LET r == result[j]
              IN  /\ r[t[2]] = Null => r[t[3]] = Null /\ r[t[4]] = Null
                  /\ r[t[2]] = Zero =>
                        r[t[3]] = NumSub(r[t[1]], r[t[2]]) /\ r[t[4]] = Null
                  /\ r[t[2]] \notin {Null, Zero} =>
                        /\ r[t[3]] = NumSub(r[t[1]], r[t[2]])
                        /\ r[t[4]] = PercentOf(r[t[3]], r[t[2]])
        /\ rawData = <<PlanRow>> =>
              /\ result[1].revVarAbs = IntNum(10)
              /\ result[1].revVarPerc = Fin(100, 9)
              /\ result[1].cogsVarAbs = IntNum(-5)
              /\ result[1].opexVarPerc = IntNum(-20)
              /\ result[1].ebitdaVarAbs = IntNum(20)
              /\ result[1].netIncomeVarPerc = IntNum(100)
        /\ rawData = <<ActualsRow>> =>
              \A t \in VarianceFields : result[1][t[3]] = Null /\ result[1][t[4]] = Null

\* A plan revenue of "0": the absolute variance is computed, the percentage is null.
C13_Witness ==
    /\ pc = "returned"
    /\ Len(rawData) = 1
    /\ rawData[1].Plan_Revenue = S0
    /\ result[1].plan_Revenue = Zero
    /\ result[1].revVarAbs = IntNum(100)
    /\ result[1].revVarPerc = Null
    /\ result[1].cogsVarPerc # Null

(***************************************************************************)
(* C14: plan net income resolution: an explicit Plan_NetIncome that parses *)
(* is the plan net income, also when plan revenue, COGS or OPEX is         *)
(* missing; with none, the plan net income is plan_Revenue - plan_COGS -   *)
(* plan_OPEX when all three are present, and null when one is missing.     *)
(***************************************************************************)
PlanComponentsPresent(r) ==
    r.plan_Revenue # Null /\ r.plan_COGS # Null /\ r.plan_OPEX # Null

C14_PlanNetIncomeResolution ==
    (pc = "returned" /\ AllWellFormed) =>
        \A i \in 1..Len(rawData) :
            LET r == OutputOf(i)
                text == rawData[i].Plan_NetIncome
                explicit == safeParseFloat(text, Null)
                computed == NumSub(NumSub(r.plan_Revenue, r.plan_COGS), r.plan_OPEX)
            IN  /\ explicit # Null => r.plan_NetIncome = explicit
                /\ \A p \in NumberTexts : text = p[1] => r.plan_NetIncome = p[2]
                /\ (Blank(text) \/ text = <<"a", "b", "c">>) =>
                      r.plan_NetIncome = IF PlanComponentsPresent(r) THEN computed ELSE Null
                /\ rawData[i] = PlanRow => r.plan_NetIncome = IntNum(20)

\* An explicit plan net income of "0" next to plan components that give 20.
C14_Witness ==
    /\ pc = "returned"
    /\ Len(rawData) = 1
    /\ rawData[1].Plan_NetIncome = S0
    /\ PlanComponentsPresent(result[1])
    /\ result[1].plan_NetIncome = Zero
    /\ result[1].netIncomeVarAbs = IntNum(40)

(***************************************************************************)
(* C15: plan EBITDA: ebitdaPlan is non-null exactly when plan revenue,     *)
(* plan COGS and plan OPEX are all present, and is then plan_Revenue -     *)
(* plan_COGS - plan_OPEX + plan_Non_Cash_Adjustments; when one of the      *)
(* three is missing, ebitdaPlan, ebitdaVarAbs and ebitdaVarPerc are null   *)
(* even if plan non-cash adjustments were supplied.                        *)
(***************************************************************************)
C15_PlanEbitda ==
    (pc = "returned" /\ AllWellFormed) =>
        \A i \in 1..Len(rawData) :
            LET r == OutputOf(i)
            IN  /\ r.ebitdaPlan # Null <=> PlanComponentsPresent(r)
                /\ PlanComponentsPresent(r) =>
                      r.ebitdaPlan =
                         NumAdd(NumSub(NumSub(r.plan_Revenue, r.plan_COGS), r.plan_OPEX),
                                r.plan_Non_Cash_Adjustments)
                /\ ~PlanComponentsPresent(r) =>
                      r.ebitdaPlan = Null /\ r.ebitdaVarAbs = Null /\ r.ebitdaVarPerc = Null
                /\ rawData[i] = PlanRow => r.ebitdaPlan = IntNum(25)
                /\ \A c \in {"Plan_Revenue", "Plan_COGS", "Plan_OPEX"} :
                      Blank(rawData[i][c]) => r.ebitdaPlan = Null

\* Plan non-cash adjustments supplied on a row with no other plan column.
C15_Witness ==
    /\ pc = "returned"
    /\ Len(rawData) = 1
    /\ rawData[1].Plan_Non_Cash_Adjustments = S100
    /\ rawData[1].Plan_Revenue = Undefined
    /\ result[1].plan_Non_Cash_Adjustments = IntNum(100)
    /\ result[1].ebitdaPlan = Null
    /\ result[1].ebitdaVarAbs = Null

(***************************************************************************)
(* C16: plan non-cash adjustments mirror the actual ones unless stated:    *)
(* plan_Non_Cash_Adjustments is the parsed Plan_Non_Cash_Adjustments when  *)
(* that column holds a number and the row's actual Non_Cash_Adjustments (0 *)
(* when absent) otherwise; it is never null, even with no plan data.       *)
(***************************************************************************)
C16_PlanNonCashMirrorsActual ==
    (pc = "returned" /\ AllWellFormed) =>
        \A i \in 1..Len(rawData) :
            LET r == OutputOf(i)
                text == rawData[i].Plan_Non_Cash_Adjustments
            IN  /\ r.plan_Non_Cash_Adjustments # Null
                /\ \A p \in NumberTexts : text = p[1] => r.plan_Non_Cash_Adjustments = p[2]
                /\ (Blank(text) \/ text = <<"a", "b", "c">>) =>
                      r.plan_Non_Cash_Adjustments = r.Non_Cash_Adjustments
                /\ rawData[i] = ActualsRow => r.plan_Non_Cash_Adjustments = Zero

\* Actual non-cash adjustments of 5 and no plan value: the plan side is 5 as well.
C16_Witness ==
    /\ pc = "returned"
    /\ Len(rawData) = 1
    /\ rawData[1].Non_Cash_Adjustments = <<"5">>
    /\ rawData[1].Plan_Non_Cash_Adjustments = Undefined
    /\ result[1].plan_Non_Cash_Adjustments = IntNum(5)
    /\ result[1].ebitdaPlan = IntNum(25)

(***************************************************************************)
(* C17: segment defaulting: a row whose Region (respectively Product) is   *)
(* absent or blank (empty or only white space) gets Region (Product) =     *)
(* "All" in the output; a non-blank value is carried through unchanged.    *)
(***************************************************************************)
C17_BlankSegmentIsAll ==
    (pc = "returned" /\ AllWellFormed) =>
        \A i \in 1..Len(rawData), c \in {"Region", "Product"} :
            OutputOf(i)[c] = IF Blank(rawData[i][c]) THEN All ELSE rawData[i][c]

(***************************************************************************)
(* C18: quarter-over-quarter growth of output row i: the first row has     *)
(* both QoQ fields null; otherwise, with p the output row before it,       *)
(* qoqRevenueGrowth = (Revenue_i - Revenue_p) / Revenue_p * 100 when       *)
(* Revenue_p # 0 and null when it is 0, and independently the same for     *)
(* the net income (revenues 100, 110, 90 give null, 10, -200/11).          *)
(***************************************************************************)
GrowthOver(cur, prev) ==
    IF prev # Zero THEN PercentOf(NumSub(cur, prev), prev) ELSE Null

C18_QuarterOverQuarter ==
    (pc = "returned" /\ AllWellFormed) =>
        /\ \A i \in 1..Len(result) :
              IF i = 1
              THEN result[i].qoqRevenueGrowth = Null /\ result[i].qoqNetIncomeGrowth = Null
              ELSE /\ result[i].qoqRevenueGrowth =
                         GrowthOver(result[i].Revenue, result[i - 1].Revenue)
                   /\ result[i].qoqNetIncomeGrowth =
                         GrowthOver(result[i].NetIncome, result[i - 1].NetIncome)
        /\ rawData = <<East23Low, East22, East22Q4>> =>
              /\ result[1].qoqRevenueGrowth = Null
              /\ result[2].qoqRevenueGrowth = IntNum(10)
              /\ result[3].qoqRevenueGrowth = Fin(-200, 11)

\* Revenues 100, 110, 90 given out of order; the middle row's net income is 0, so
\* the last row has a revenue growth and no net income growth.
C18_Witness ==
    /\ pc = "returned"
    /\ rawData = <<East23Low, East22, East22Q4>>
    /\ result[2].qoqNetIncomeGrowth = IntNum(-100)
    /\ result[3].qoqRevenueGrowth = Fin(-200, 11)
    /\ result[3].qoqNetIncomeGrowth = Null

(***************************************************************************)
(* C19: year-over-year growth of an output row: a peer is an output row    *)
(* with Year = the row's Year - 1, the same quarterIndex, the same Region  *)
(* and the same Product (both after defaulting).  With no peer both YoY    *)
(* fields are null, whatever other rows are present; with a peer,          *)
(* yoyRevenueGrowth = (Revenue - peer.Revenue) / peer.Revenue * 100 when   *)
(* peer.Revenue # 0 and null otherwise, and likewise for the net income    *)
(* (100 then 120 gives 20).                                                *)
(***************************************************************************)
Peers(r) ==
    {j \in 1..Len(result) :
        /\ result[j].Year = NumSub(r.Year, IntNum(1))
        /\ result[j].quarterIndex = r.quarterIndex
        /\ result[j].Region = r.Region
        /\ result[j].Product = r.Product}

C19_YearOverYear ==
    (pc = "returned" /\ AllWellFormed) =>
        /\ \A i \in 1..Len(result) :
              LET r == result[i]
              IN  IF Peers(r) = {}
                  THEN r.yoyRevenueGrowth = Null /\ r.yoyNetIncomeGrowth = Null
                  ELSE \E j \in Peers(r) :
                          /\ r.yoyRevenueGrowth = GrowthOver(r.Revenue, result[j].Revenue)
                          /\ r.yoyNetIncomeGrowth =
                                GrowthOver(r.NetIncome, result[j].NetIncome)
        /\ rawData = <<East23, East22>> => result[2].yoyRevenueGrowth = IntNum(20)

\* An East row of 2022 and, a year later, a West row, an East row and an East row
\* of another product: only the East row of the same product has a peer.
C19_Witness ==
    /\ pc = "returned"
    /\ rawData = <<West23, East23, East22>>
    /\ result[2].Region = West
    /\ result[2].yoyRevenueGrowth = Null
    /\ result[3].yoyRevenueGrowth = IntNum(20)
    /\ result[3].yoyNetIncomeGrowth = IntNum(50)

(***************************************************************************)
(* C20: processFinancialData does not modify its argument: no step of a    *)
(* call, successful or failed, changes the input array; it keeps the same  *)
(* rows in the same order with the same field values.                      *)
(***************************************************************************)
C20_InputNotModified == [][rawData' = rawData]_vars

\* A call that returned its rows in another order than the input's, which is
\* still in the order it was given in.
C20_Witness ==
    /\ pc = "returned"
    /\ Len(rawData) = 2
    /\ rawData[1].Quarter = Q1_2023
    /\ rawData[2].Quarter = Q1_2022
    /\ result[1].Quarter = Q1_2022
    /\ result[1].id = RowId(rawData[2], 1)

(***************************************************************************)
(* C21: determinism: the outcome of a call is a function of its input      *)
(* alone, so two calls on equal inputs end alike: both throw the same      *)
(* error, or both return sequences equal row by row and field by field,    *)
(* ids and row order included.                                             *)
(***************************************************************************)
\* The outcome every finished call on these rows must have.
OutcomeOf(rows) ==
    LET bad == {i \in 1..Len(rows) : ~WellFormedLabel(rows[i].Quarter)}
        first == CHOOSE i \in bad : \A j \in bad : i <= j
    IN  IF bad = {}
        THEN [pc |-> "returned", result |-> processFinancialData(rows), error |-> NoError]
        ELSE [pc |-> "thrown", result |-> <<>>,
              error |-> [thrown |-> TRUE, message |-> QuarterErrorMessage(rows[first].Quarter)]]

C21_Deterministic ==
    pc \in {"returned", "thrown"} =>
        [pc |-> pc, result |-> result, error |-> error] = OutcomeOf(rawData)

\* A returned call whose input holds two rows of one period with different
\* revenue, the order of which only the tie-break decides.
C21_Witness ==
    /\ pc = "returned"
    /\ Len(rawData) = 3
    /\ rawData[1].Quarter = Q4_2022
    /\ rawData[2].Quarter = Q1_2022 /\ rawData[2].Revenue = S100
    /\ rawData[3].Quarter = Q1_2022 /\ rawData[3].Revenue = S0
    /\ result[1].Revenue = IntNum(100)
    /\ result[2].Revenue = Zero

(***************************************************************************)
(* C22: row identity: every output row's id is                             *)
(* '<Quarter>-<Region>-<Product>-<index>' with the output (defaulted)      *)
(* Region and Product and index = the zero-based position of its raw row   *)
(* in the input, not its position after sorting; the ids of one output are *)
(* pairwise distinct, also for rows with the same period, region and       *)
(* product and for segment names that contain '-'.                         *)
(***************************************************************************)
IdOf(quarter, region, product, index) ==
    quarter \o <<"-">> \o region \o <<"-">> \o product \o <<"-">> \o IndexStr(index)

\* Output row j is the row built from the raw row at 1-based position i.
BuiltFrom(j, i) ==
    /\ result[j].Quarter = rawData[i].Quarter
    /\ result[j].Region =
          IF rawData[i].Region \in {Undefined, <<>>} THEN All ELSE rawData[i].Region
    /\ result[j].Product =
          IF rawData[i].Product \in {Undefined, <<>>} THEN All ELSE rawData[i].Product
    /\ result[j].Revenue = safeParseFloat(rawData[i].Revenue, Zero)
    /\ result[j].id = IdOf(rawData[i].Quarter, result[j].Region, result[j].Product, i - 1)

C22_RowIdentity ==
    (pc = "returned" /\ AllWellFormed) =>
        /\ \A i \in 1..Len(rawData) : \E j \in 1..Len(result) : BuiltFrom(j, i)
        /\ \A j \in 1..Len(result) : \E i \in 1..Len(rawData) : BuiltFrom(j, i)
        /\ \A j, k \in 1..Len(result) : j # k => result[j].id # result[k].id

\* Region "A-B" without product and region "A" with product "B-All" in one
\* period, followed by a row of an earlier period: the two ids differ in the
\* input position alone, and the row sorted first carries index 2.
C22_Witness ==
    /\ pc = "returned"
    /\ rawData = <<DashRegion23, DashProduct23, East22>>
    /\ result[1].id = Q1_2022 \o <<"-">> \o East \o <<"-">> \o All \o <<"-", "2">>
    /\ result[2].id = Q1_2023 \o <<"-", "A", "-", "B", "-", "A", "l", "l", "-", "0">>
    /\ result[3].id = Q1_2023 \o <<"-", "A", "-", "B", "-", "A", "l", "l", "-", "1">>

(***************************************************************************)
(* C23: stable tie-break: output rows of one period keep their input       *)
(* order: if input rows i < j have equal sortKey, the row built from i     *)
(* precedes the row built from j in the output.                            *)
(***************************************************************************)
\* The output position of the row built from the raw row at position i.
PositionOf(i) == CHOOSE j \in 1..Len(result) : result[j].id = RowId(rawData[i], i - 1)

C23_StableTieBreak ==
    (pc = "returned" /\ AllWellFormed) =>
        \A i, j \in 1..Len(rawData) :
            (i < j /\ result[PositionOf(i)].sortKey = result[PositionOf(j)].sortKey) =>
                PositionOf(i) < PositionOf(j)

\* Two rows of Q1-2023 around a row of Q1-2022: the sort moves the 2022 row to
\* the front and leaves the other two in input order.
C23_Witness ==
    /\ pc = "returned"
    /\ rawData = <<East23Low, East22, East23>>
    /\ PositionOf(2) = 1
    /\ result[2].Revenue = IntNum(90)
    /\ result[3].Revenue = IntNum(120)
    /\ result[3].qoqRevenueGrowth = Fin(100, 3)

(***************************************************************************)
(* C24: the quarter-over-quarter reference of an output row after the      *)
(* first is the output row just before it, whatever that row's region,     *)
(* product or period: a row that follows a row of another segment, or a    *)
(* row of its own quarter, has its growth computed over that row.          *)
(***************************************************************************)
\* Output row i follows a row of another segment or of its own quarter.
ForeignNeighbour(i) ==
    /\ i > 1
    /\ \/ result[i - 1].Region # result[i].Region
       \/ result[i - 1].Product # result[i].Product
       \/ result[i - 1].sortKey = result[i].sortKey

C24_NeighbourAcrossSegments ==
    (pc = "returned" /\ AllWellFormed) =>
        /\ \A i \in 1..Len(result) :
              ForeignNeighbour(i) =>
                  /\ result[i].qoqRevenueGrowth =
                        GrowthOver(result[i].Revenue, result[i - 1].Revenue)
                  /\ result[i].qoqNetIncomeGrowth =
                        GrowthOver(result[i].NetIncome, result[i - 1].NetIncome)
        /\ rawData = <<East23Low, West23>> => result[2].qoqRevenueGrowth = Fin(100, 3)

\* East in Q1-2022, then West and East/Soap in Q1-2023: West grows over East,
\* and Soap over West, a row of its own quarter.
C24_Witness ==
    /\ pc = "returned"
    /\ rawData = <<East22, West23, EastSoap23>>
    /\ ForeignNeighbour(2) /\ ForeignNeighbour(3)
    /\ result[2].qoqRevenueGrowth = IntNum(20)
    /\ result[2].qoqNetIncomeGrowth = IntNum(50)
    /\ result[3].qoqRevenueGrowth = Zero

(***************************************************************************)
(* C25: year-over-year first match wins: when several rows match (Year -   *)
(* 1, quarterIndex, Region, Product), the peer is the one earliest in the  *)
(* output sequence, which is the one earliest in the input, and its values *)
(* alone decide the result: a first match with Revenue 0 gives a null      *)
(* revenue growth even when a later match has a non-zero revenue.          *)
(***************************************************************************)
\* The input position of the raw row that output row j was built from.
InputOf(j) == CHOOSE i \in 1..Len(rawData) : result[j].id = RowId(rawData[i], i - 1)

FirstPeer(r) == CHOOSE j \in Peers(r) : \A m \in Peers(r) : j <= m

C25_FirstMatchWins ==
    (pc = "returned" /\ AllWellFormed) =>
        \A i \in 1..Len(result) :
            LET r == result[i]
            IN  Peers(r) # {} =>
                    /\ \A m \in Peers(r) : InputOf(FirstPeer(r)) <= InputOf(m)
                    /\ r.yoyRevenueGrowth =
                          GrowthOver(r.Revenue, result[FirstPeer(r)].Revenue)
                    /\ r.yoyNetIncomeGrowth =
                          GrowthOver(r.NetIncome, result[FirstPeer(r)].NetIncome)

\* Two East rows of Q1-2022, the first with revenue 0 and the second with 100:
\* the East row of Q1-2023 has no revenue growth, and a net income growth over
\* the first row's net income of -60.
C25_Witness ==
    /\ pc = "returned"
    /\ rawData = <<East23, East22NoRevenue, East22>>
    /\ Peers(result[3]) = {1, 2}
    /\ result[2].Revenue = IntNum(100)
    /\ result[3].yoyRevenueGrowth = Null
    /\ result[3].yoyNetIncomeGrowth = IntNum(-200)

(***************************************************************************)
(* C26: the enrichment pass changes only the four growth fields: at every  *)
(* position the enriched row equals the normalized sorted row of that      *)
(* position in every other field (id, Quarter, Year, quarterIndex,         *)
(* sortKey, Region, Product, actuals, plan, margins, variances), so the    *)
(* row order is unchanged, and the sorted rows themselves stay as they     *)
(* were.                                                                   *)
(***************************************************************************)
C26_OnlyGrowthFieldsChange ==
    pc \in {"enrich", "returned"} =>
        /\ Len(result) <= Len(dataWithMetrics)
        /\ pc = "returned" => Len(result) = Len(dataWithMetrics)
        /\ \A i \in 1..Len(result) :
              /\ DOMAIN result[i] = DOMAIN dataWithMetrics[i]
              /\ \A f \in DOMAIN result[i] \ GrowthFields :
                    result[i][f] = dataWithMetrics[i][f]
        /\ \A i \in 1..Len(dataWithMetrics), f \in GrowthFields :
              dataWithMetrics[i][f] = Null

\* A row with a peer a year earlier: its growth fields are set, the rest of it
\* is the normalized row.
C26_Witness ==
    /\ pc = "returned"
    /\ rawData = <<East23, East22>>
    /\ result[2].yoyRevenueGrowth = IntNum(20)
    /\ result[2].qoqNetIncomeGrowth = IntNum(50)
    /\ dataWithMetrics[2].yoyRevenueGrowth = Null
    /\ result[2].id = dataWithMetrics[2].id
    /\ result[2].Revenue = IntNum(120)

(***************************************************************************)
(* C27: enrichment is order-independent: a row's growth fields depend only *)
(* on the normalized Revenue, net income, Year, quarterIndex, Region and   *)
(* Product of rows of the sorted sequence and never on another row's       *)
(* growth fields, so whichever rows have been enriched already, in any     *)
(* order or interleaving of one task per index, each index gets the row    *)
(* the sequential pass gives it.                                           *)
(***************************************************************************)
\* The sorted sequence as a task finds it when the rows at the positions in
\* done have already been replaced by their enriched rows.
EnrichedAt(done) ==
    [k \in 1..Len(dataWithMetrics) |->
        IF k \in done THEN EnrichRow(dataWithMetrics, k) ELSE dataWithMetrics[k]]

C27_EnrichmentOrderIndependent ==
    pc \in {"enrich", "returned"} =>
        \A done \in SUBSET (1..Len(dataWithMetrics)) :
            \A i \in 1..Len(dataWithMetrics) :
                /\ EnrichRow(EnrichedAt(done), i) = EnrichRow(dataWithMetrics, i)
                /\ i <= Len(result) => result[i] = EnrichRow(EnrichedAt(done), i)

\* Three consecutive periods: the last row's neighbour carries a growth of its
\* own, and the last row has a quarter-over-quarter and a year-over-year growth.
C27_Witness ==
    /\ pc = "returned"
    /\ rawData = <<East22, East22Q4, East23>>
    /\ result[2].qoqRevenueGrowth = IntNum(10)
    /\ result[3].qoqRevenueGrowth = Fin(100, 11)
    /\ result[3].yoyRevenueGrowth = IntNum(20)
    /\ EnrichRow(EnrichedAt({1, 2}), 3) = result[3]

(***************************************************************************)
(* C28: the raw Year column has no influence on the result: an input and   *)
(* any input that differs from it only in the Year values of its rows (a   *)
(* Year that contradicts the quarter label, an absent Year) have the same  *)
(* outcome; the output Year, the sort order and the year-over-year         *)
(* matching come from the quarter label alone.                             *)
(***************************************************************************)
\* rawData with the Year of the rows at the positions in where set to year.
WithYear(where, year) ==
    [k \in 1..Len(rawData) |->
        IF k \in where THEN [rawData[k] EXCEPT !.Year = year] ELSE rawData[k]]

C28_YearColumnIgnored ==
    pc \in {"returned", "thrown"} =>
        /\ \A year \in YearStrs :
              \A where \in {1..Len(rawData)} \cup {{k} : k \in 1..Len(rawData)} :
                  OutcomeOf(WithYear(where, year)) =
                      [pc |-> pc, result |-> result, error |-> error]
        /\ pc = "returned" =>
              \A j \in 1..Len(result) : result[j].Year = IntNum(LabelYear(result[j].Quarter))

\* Two rows whose Year column says 2023, one of them labelled Q1-2022: the
\* output years are 2022 and 2023 and the later row finds its peer.
C28_Witness ==
    /\ pc = "returned"
    /\ rawData = <<East22, East23>>
    /\ rawData[1].Year = rawData[2].Year
    /\ result[1].Year = IntNum(2022)
    /\ result[2].Year = IntNum(2023)
    /\ result[2].yoyRevenueGrowth = IntNum(20)
    /\ result = processFinancialData(WithYear({1}, Undefined))

(***************************************************************************)
(* C29: a row's year-over-year peers all lie strictly earlier in the       *)
(* output than the row itself, with a sortKey exactly 1 lower, so no row   *)
(* is its own peer, and in every non-empty output the first row has all    *)
(* four growth fields null.                                                *)
(***************************************************************************)
C29_PeerStrictlyEarlier ==
    (pc = "returned" /\ AllWellFormed) =>
        /\ \A i \in 1..Len(result) :
              /\ i \notin Peers(result[i])
              /\ \A j \in Peers(result[i]) :
                    /\ j < i
                    /\ result[j].sortKey = NumSub(result[i].sortKey, IntNum(1))
        /\ Len(result) > 0 => \A f \in GrowthFields : result[1][f] = Null

\* The later period given first: its row comes second in the output, after its
\* peer, and the peer has no growth at all.
C29_Witness ==
    /\ pc = "returned"
    /\ rawData = <<East23Low, East22>>
    /\ Peers(result[2]) = {1}
    /\ result[2].yoyRevenueGrowth = IntNum(-10)
    /\ result[1].sortKey = Fin(8089, 4)
    /\ \A f \in GrowthFields : result[1][f] = Null

====
